---- MODULE Spec2Model ----
(***************************************************************************)
(* Model of us_visa/components/data_validation.py: class DataValidation.    *)
(* One run of the component: construction, initiate_data_validation and    *)
(* the methods it calls, each modelled step by step, with the failures of  *)
(* the file system, the schema and the drift library as nondeterminism.    *)
(***************************************************************************)
EXTENDS Naturals, Sequences, FiniteSets

(* ------------------------------ bounds --------------------------------- *)
\* column names are 1..NumCols
NumCols == 2
\* longest numerical_columns / categorical_columns list of a schema
MaxListLen == 1
\* longest "columns" list of a schema
MaxSchemaCols == 2

ColumnNames == 1..NumCols

SeqsUpTo(S, n) == UNION {[1..k -> S] : k \in 0..n}

(* ------------------------------ state ---------------------------------- *)
VARIABLES
    pc,                    \* position of the run
    schema,                \* self._schema_config
    config,                \* self.data_validation_config
    train_df,              \* local train_df of initiate_data_validation
    test_df,               \* local test_df
    validation_error_msg,  \* local validation_error_msg, a sequence of words
    validation_status,     \* local validation_status
    json_report,           \* local json_report of detect_dataset_drift
    drift_status,          \* value returned by detect_dataset_drift
    files,                 \* paths written by this run
    artifact,              \* the DataValidationArtifact returned, if any
    exc,                   \* the exception that left the constructor / the run
    calls,                 \* the calls made so far, in order
    rets,                  \* values returned by the column checks
    left                   \* exceptions that left a method

vars == <<pc, schema, config, train_df, test_df, validation_error_msg,
          validation_status, json_report, drift_status, files, artifact,
          exc, calls, rets, left>>

(* --------------------------- data model -------------------------------- *)
SchemaKeys == {"columns", "numerical_columns", "categorical_columns"}

\* What read_yaml_file can hand back: any of the three keys may be absent;
\* the entries of "columns" are opaque (only their number is ever used).
SchemaConfigs ==
    {[keys |-> k,
      columns |-> IF "columns" \in k THEN [i \in 1..n |-> i] ELSE <<>>,
      numerical_columns |-> IF "numerical_columns" \in k THEN nc ELSE <<>>,
      categorical_columns |-> IF "categorical_columns" \in k THEN cc ELSE <<>>] :
        k \in SUBSET SchemaKeys, n \in 0..MaxSchemaCols,
        nc \in SeqsUpTo(ColumnNames, MaxListLen),
        cc \in SeqsUpTo(ColumnNames, MaxListLen)}

ReportPaths == {"artifact/drift_report/report.yaml", "artifact/other/report.yaml"}

\* A dataframe as read_csv returns it: column labels are unique.
DataFrames == {[loaded |-> TRUE, columns |-> c] : c \in SUBSET ColumnNames}
NoDataFrame == [loaded |-> FALSE, columns |-> {}]

DriftFields == {"n_features", "n_drifted_features", "dataset_drift"}
\* The parsed JSON of the drift report: which metric fields it holds, and
\* the value of dataset_drift when it holds it.
JsonReports == {[fields |-> f, dataset_drift |-> d] :
                    f \in SUBSET DriftFields, d \in BOOLEAN}
NoReport == [fields |-> {}, dataset_drift |-> FALSE]

NoArtifact == [returned |-> FALSE, validation_status |-> FALSE,
               message |-> <<>>, drift_report_file_path |-> ""]

\* exceptions are chains of type names, outermost first; <<>> is "none"
ReadErrors == {"FileNotFoundError", "ParserError"}

(* ----------------------------- messages -------------------------------- *)
MsgTrainCount == <<"Columns", "are", "missing", "in", "training", "dataframe.">>
MsgTestCount == <<"Columns", "are", "missing", "in", "test", "dataframe.">>
MsgTrainExist ==
    <<"Required", "columns", "are", "missing", "in", "training", "dataframe.">>
MsgTestExist ==
    <<"Required", "columns", "are", "missing", "in", "test", "dataframe.">>
MsgDrift == <<"Drift", "detected.">>
MsgNoDrift == <<"Drift", "not", "detected.">>

(* ------------------------- exception wrapping -------------------------- *)
USvisaException(e) == <<"USvisaException">> \o e

InitExcept(e) == USvisaException(e)
ValidateExcept(e) == USvisaException(e)
ColumnExistExcept(e) == USvisaException(e)
ReadDataExcept(e) == USvisaException(e)
DetectDriftExcept(e) == USvisaException(e)
InitiateExcept_PassThrough(e) == e
InitiateExcept(e) == USvisaException(e)

Left(method, raised, wrapped) ==
    [method |-> method, raised |-> raised, exc |-> wrapped]

\* an exception leaves a method called by initiate_data_validation and then
\* initiate_data_validation itself
Propagate(method, raised, wrapped) ==
    /\ left' = left \cup {Left(method, raised, wrapped),
                          Left("initiate_data_validation", wrapped,
                               InitiateExcept(wrapped))}
    /\ exc' = InitiateExcept(wrapped)
    /\ pc' = "raised"

(* ------------------------------ Init ----------------------------------- *)
Init ==
    /\ pc = "new"
    /\ schema = [keys |-> {}, columns |-> <<>>, numerical_columns |-> <<>>,
                 categorical_columns |-> <<>>]
    /\ config = [drift_report_file_path |-> ""]
    /\ train_df = NoDataFrame
    /\ test_df = NoDataFrame
    /\ validation_error_msg = <<>>
    /\ validation_status = FALSE
    /\ json_report = NoReport
    /\ drift_status = FALSE
    /\ files = {}
    /\ artifact = NoArtifact
    /\ exc = <<>>
    /\ calls = <<>>
    /\ rets = {}
    /\ left = {}

(* --------------------------- constructor ------------------------------- *)
Construct ==
    /\ pc = "new"
    /\ calls' = Append(calls, "__init__")
    /\ \E p \in ReportPaths :
         /\ config' = [drift_report_file_path |-> p]
         /\ \/ \E s \in SchemaConfigs :
                 /\ schema' = s
                 /\ pc' = "ready"
                 /\ UNCHANGED <<exc, left>>
            \/ /\ pc' = "init_raised"
               /\ exc' = InitExcept(<<"YAMLError">>)
               /\ left' = left \cup {Left("__init__", <<"YAMLError">>,
                                          InitExcept(<<"YAMLError">>))}
               /\ UNCHANGED schema
    /\ UNCHANGED <<train_df, test_df, validation_error_msg, validation_status,
                   json_report, drift_status, files, artifact, rets>>

(* ------------------------- the column checks --------------------------- *)
\* line 35: only the two lengths are compared
validate_number_of_columns_AtLeast(dataframe) ==
    Cardinality(dataframe.columns) >= Len(schema.columns)

validate_number_of_columns(dataframe) ==
    Cardinality(dataframe.columns) = Len(schema.columns)

\* lines 46-64: collect the missing names of both lists, true iff both empty
is_column_exist_OnlyCategorical(df) ==
    LET missing_categorical_columns ==
            SelectSeq(schema.categorical_columns, LAMBDA c : c \notin df.columns)
    IN  ~ (missing_categorical_columns # <<>>)

is_column_exist_OnlyNumerical(df) ==
    LET missing_numerical_columns ==
            SelectSeq(schema.numerical_columns, LAMBDA c : c \notin df.columns)
    IN  ~ (missing_numerical_columns # <<>>)

is_column_exist(df) ==
    LET dataframe_columns == df.columns
        missing_numerical_columns ==
            SelectSeq(schema.numerical_columns,
                      LAMBDA column : column \notin dataframe_columns)
        missing_categorical_columns ==
            SelectSeq(schema.categorical_columns,
                      LAMBDA column : column \notin dataframe_columns)
    IN  ~ (missing_categorical_columns # <<>> \/ missing_numerical_columns # <<>>)

\* lines 117-126: "if not <check>: validation_error_msg += <fragment>"
AppendFragment_Overwrite(msg, passed, fragment) ==
    IF ~ passed THEN fragment ELSE msg

AppendFragment(msg, passed, fragment) ==
    IF ~ passed THEN msg \o fragment ELSE msg

\* line 128
ValidationStatus(msg) == Len(msg) = 0

\* line 131
ShouldDetectDrift_Always(status) == TRUE

ShouldDetectDrift(status) == status

\* lines 133-138
DriftMessage_Swapped(status) == IF status THEN MsgNoDrift ELSE MsgDrift

DriftMessage(status) == IF status THEN MsgDrift ELSE MsgNoDrift

\* lines 143-147
ArtifactOf_DriftFails(status, msg, path) ==
    [returned |-> TRUE, validation_status |-> status /\ msg # MsgDrift,
     message |-> msg, drift_report_file_path |-> path]

ArtifactOf_OtherPath(status, msg, path) ==
    [returned |-> TRUE, validation_status |-> status, message |-> msg,
     drift_report_file_path |-> CHOOSE q \in ReportPaths : q # path]

ArtifactOf(status, msg, path) ==
    [returned |-> TRUE, validation_status |-> status, message |-> msg,
     drift_report_file_path |-> path]

\* lines 84-100: the order of the statements of detect_dataset_drift
DetectDriftStep_ExtractFirst(p) ==
    CASE p = "drift_run" -> "drift_extract"
      [] p = "drift_extract" -> "drift_write"
      [] p = "drift_write" -> "drift_msg"

DetectDriftStep(p) ==
    CASE p = "drift_run" -> "drift_write"
      [] p = "drift_write" -> "drift_extract"
      [] p = "drift_extract" -> "drift_msg"

(* ---------------------- initiate_data_validation ----------------------- *)
\* lines 109-110
Initiate ==
    /\ pc = "ready"
    /\ calls' = Append(calls, "initiate_data_validation")
    /\ validation_error_msg' = <<>>
    /\ pc' = "read_train"
    /\ UNCHANGED <<schema, config, train_df, test_df, validation_status,
                   json_report, drift_status, files, artifact, exc, rets, left>>

\* read_data, lines 73-76, as called at lines 113 and 114
ReadTrain ==
    /\ pc = "read_train"
    /\ calls' = Append(calls, "read_data")
    /\ \/ \E df \in DataFrames :
            /\ train_df' = df
            /\ pc' = "read_test"
            /\ UNCHANGED <<exc, left>>
       \/ \E t \in ReadErrors :
            /\ Propagate("read_data", <<t>>, ReadDataExcept(<<t>>))
            /\ UNCHANGED train_df
    /\ UNCHANGED <<schema, config, test_df, validation_error_msg,
                   validation_status, json_report, drift_status, files,
                   artifact, rets>>

ReadTest ==
    /\ pc = "read_test"
    /\ calls' = Append(calls, "read_data")
    /\ \/ \E df \in DataFrames :
            /\ test_df' = df
            /\ pc' = "count_train"
            /\ UNCHANGED <<exc, left>>
       \/ \E t \in ReadErrors :
            /\ Propagate("read_data", <<t>>, ReadDataExcept(<<t>>))
            /\ UNCHANGED test_df
    /\ UNCHANGED <<schema, config, train_df, validation_error_msg,
                   validation_status, json_report, drift_status, files,
                   artifact, rets>>

Returned(method, arg, value) == [method |-> method, arg |-> arg, value |-> value]

\* validate_number_of_columns, lines 34-39, and the "if not" around the call
CountCheck(at, arg, df, fragment, next) ==
    /\ pc = at
    /\ calls' = Append(calls, "validate_number_of_columns")
    /\ IF "columns" \notin schema.keys
         THEN /\ Propagate("validate_number_of_columns", <<"KeyError">>,
                           ValidateExcept(<<"KeyError">>))
              /\ UNCHANGED <<validation_error_msg, rets>>
         ELSE /\ rets' = rets \cup {Returned("validate_number_of_columns", arg,
                                             validate_number_of_columns(df))}
              /\ validation_error_msg' =
                     AppendFragment(validation_error_msg,
                                    validate_number_of_columns(df), fragment)
              /\ pc' = next
              /\ UNCHANGED <<exc, left>>
    /\ UNCHANGED <<schema, config, train_df, test_df, validation_status,
                   json_report, drift_status, files, artifact>>

\* lines 117-118
ValidateTrainCount ==
    CountCheck("count_train", "train", train_df, MsgTrainCount, "count_test")

\* lines 119-120
ValidateTestCount ==
    CountCheck("count_test", "test", test_df, MsgTestCount, "exist_train")

\* is_column_exist, lines 45-66, and the "if not" around the call
ExistCheck(at, arg, df, fragment, next) ==
    /\ pc = at
    /\ calls' = Append(calls, "is_column_exist")
    /\ IF ~ ({"numerical_columns", "categorical_columns"} \subseteq schema.keys)
         THEN /\ Propagate("is_column_exist", <<"KeyError">>,
                           ColumnExistExcept(<<"KeyError">>))
              /\ UNCHANGED <<validation_error_msg, rets>>
         ELSE /\ rets' = rets \cup {Returned("is_column_exist", arg,
                                             is_column_exist(df))}
              /\ validation_error_msg' =
                     AppendFragment(validation_error_msg, is_column_exist(df),
                                    fragment)
              /\ pc' = next
              /\ UNCHANGED <<exc, left>>
    /\ UNCHANGED <<schema, config, train_df, test_df, validation_status,
                   json_report, drift_status, files, artifact>>

\* lines 123-124
ExistTrain ==
    ExistCheck("exist_train", "train", train_df, MsgTrainExist, "exist_test")

\* lines 125-126
ExistTest ==
    ExistCheck("exist_test", "test", test_df, MsgTestExist, "status")

\* lines 128-132 and 139-140: the status and the branch on it
ComputeStatus ==
    /\ pc = "status"
    /\ validation_status' = ValidationStatus(validation_error_msg)
    /\ IF ShouldDetectDrift(validation_status')
         THEN /\ calls' = Append(calls, "detect_dataset_drift")
              /\ pc' = "drift_run"
         ELSE /\ pc' = "artifact"
              /\ UNCHANGED calls
    /\ UNCHANGED <<schema, config, train_df, test_df, validation_error_msg,
                   json_report, drift_status, files, artifact, exc, rets, left>>

(* ------------------------ detect_dataset_drift ------------------------- *)
\* lines 84-89: build and run the report, parse its JSON
DriftRun ==
    /\ pc = "drift_run"
    /\ calls' = Append(calls, "Report.run")
    /\ \/ \E r \in JsonReports :
            /\ json_report' = r
            /\ pc' = DetectDriftStep(pc)
            /\ UNCHANGED <<exc, left>>
       \/ /\ Propagate("detect_dataset_drift", <<"ValueError">>,
                       DetectDriftExcept(<<"ValueError">>))
          /\ UNCHANGED json_report
    /\ UNCHANGED <<schema, config, train_df, test_df, validation_error_msg,
                   validation_status, drift_status, files, artifact, rets>>

\* line 92: write the whole parsed report at the configured path
DriftWrite ==
    /\ pc = "drift_write"
    /\ calls' = Append(calls, "write_yaml_file")
    /\ \/ /\ files' = files \cup {config.drift_report_file_path}
          /\ pc' = DetectDriftStep(pc)
          /\ UNCHANGED <<exc, left>>
       \/ /\ Propagate("detect_dataset_drift", <<"OSError">>,
                       DetectDriftExcept(<<"OSError">>))
          /\ UNCHANGED files
    /\ UNCHANGED <<schema, config, train_df, test_df, validation_error_msg,
                   validation_status, json_report, drift_status, artifact, rets>>

\* lines 95-100: read the three metric fields, return dataset_drift
DriftExtract ==
    /\ pc = "drift_extract"
    /\ calls' = Append(calls, "extract")
    /\ IF DriftFields \subseteq json_report.fields
         THEN /\ drift_status' = json_report.dataset_drift
              /\ pc' = DetectDriftStep(pc)
              /\ UNCHANGED <<exc, left>>
         ELSE /\ Propagate("detect_dataset_drift", <<"KeyError">>,
                           DetectDriftExcept(<<"KeyError">>))
              /\ UNCHANGED drift_status
    /\ UNCHANGED <<schema, config, train_df, test_df, validation_error_msg,
                   validation_status, json_report, files, artifact, rets>>

\* lines 133-138
SetDriftMessage ==
    /\ pc = "drift_msg"
    /\ validation_error_msg' = DriftMessage(drift_status)
    /\ pc' = "artifact"
    /\ UNCHANGED <<schema, config, train_df, test_df, validation_status,
                   json_report, drift_status, files, artifact, exc, calls,
                   rets, left>>

\* lines 143-150
MakeArtifact ==
    /\ pc = "artifact"
    /\ artifact' = ArtifactOf(validation_status, validation_error_msg,
                              config.drift_report_file_path)
    /\ pc' = "returned"
    /\ UNCHANGED <<schema, config, train_df, test_df, validation_error_msg,
                   validation_status, json_report, drift_status, files, exc,
                   calls, rets, left>>

(* ------------------------ vocabulary of the claims --------------------- *)
DfOf(arg) == IF arg = "train" THEN train_df ELSE test_df

SameCount(df) == Cardinality(df.columns) = Len(schema.columns)

NumericalPresent(df) ==
    \A i \in DOMAIN schema.numerical_columns :
        schema.numerical_columns[i] \in df.columns

CategoricalPresent(df) ==
    \A i \in DOMAIN schema.categorical_columns :
        schema.categorical_columns[i] \in df.columns

RequiredNames ==
    {schema.numerical_columns[i] : i \in DOMAIN schema.numerical_columns}
        \cup {schema.categorical_columns[i] : i \in DOMAIN schema.categorical_columns}

AllChecksPass ==
    /\ SameCount(train_df) /\ SameCount(test_df)
    /\ NumericalPresent(train_df) /\ CategoricalPresent(train_df)
    /\ NumericalPresent(test_df) /\ CategoricalPresent(test_df)

\* phrase occurs in msg as a run of consecutive words
Contains(msg, phrase) ==
    \E i \in 0..Len(msg) :
        /\ i + Len(phrase) <= Len(msg)
        /\ SubSeq(msg, i + 1, i + Len(phrase)) = phrase

RequiredMissingPhrase == <<"Required", "columns", "are", "missing">>

ColumnFragments == {MsgTrainCount, MsgTestCount, MsgTrainExist, MsgTestExist}

Positions(name) == {i \in DOMAIN calls : calls[i] = name}

IsColumnCheck(name) ==
    name \in {"validate_number_of_columns", "is_column_exist"}

FourChecks == <<"validate_number_of_columns", "validate_number_of_columns",
                "is_column_exist", "is_column_exist">>

Ended == pc \in {"returned", "raised"}

LacksCategorical(df) == df.loaded /\ ~ CategoricalPresent(df)

FragmentIf(failed, fragment) == IF failed THEN fragment ELSE <<>>

DriftKeyErrorLeft ==
    \E l \in left : l.method = "detect_dataset_drift" /\ l.raised = <<"KeyError">>

(* ------------------------------- C1 ------------------------------------ *)
\* C1: every value validate_number_of_columns returned is true exactly when
\* the dataframe has as many columns as the schema's "columns" list has
\* entries; the names play no part.
C1_CountCheckIffSameCount ==
    \A r \in rets :
        r.method = "validate_number_of_columns" =>
            /\ (r.value = TRUE => SameCount(DfOf(r.arg)))
            /\ (r.value = FALSE => ~ SameCount(DfOf(r.arg)))

\* the count check returned true for a dataframe that holds none of the
\* names the schema requires
C1_Witness ==
    \E r \in rets :
        /\ r.method = "validate_number_of_columns"
        /\ r.value = TRUE
        /\ RequiredNames # {}
        /\ RequiredNames \cap DfOf(r.arg).columns = {}
        /\ DfOf(r.arg).columns # {}

(* ------------------------------- C2 ------------------------------------ *)
\* C2: every value is_column_exist returned is true exactly when each name
\* of numerical_columns and each name of categorical_columns is a column of
\* the dataframe; columns beyond those do not matter.
C2_ColumnExistIffAllPresent ==
    \A r \in rets :
        r.method = "is_column_exist" =>
            (r.value <=> (NumericalPresent(DfOf(r.arg))
                            /\ CategoricalPresent(DfOf(r.arg))))

\* is_column_exist returned true for a dataframe with a column the schema
\* does not name, both lists being non-empty
C2_Witness ==
    \E r \in rets :
        /\ r.method = "is_column_exist"
        /\ r.value = TRUE
        /\ schema.numerical_columns # <<>>
        /\ schema.categorical_columns # <<>>
        /\ DfOf(r.arg).columns \ RequiredNames # {}

(* ------------------------------- C3 ------------------------------------ *)
\* C3: a returned artifact has validation_status true exactly when both
\* dataframes pass the count check and the required-column check, whatever
\* the drift detection reported.
C3_StatusIffAllChecksPass ==
    artifact.returned => (artifact.validation_status <=> AllChecksPass)

\* an artifact returned with status true although drift was detected
C3_Witness ==
    /\ artifact.returned
    /\ artifact.validation_status
    /\ json_report.dataset_drift
    /\ RequiredNames # {}

(* ------------------------------- C4 ------------------------------------ *)
\* C4 as stated: once the run has ended, a training or test CSV that lacks
\* a required categorical column has given an artifact whose message
\* contains "Required columns are missing" and whose status is false.
C4_Original ==
    (Ended /\ (LacksCategorical(train_df) \/ LacksCategorical(test_df))) =>
        /\ artifact.returned
        /\ Contains(artifact.message, RequiredMissingPhrase)
        /\ ~ artifact.validation_status

\* C4 amended: the same, for the runs in which both CSVs were read and the
\* schema holds all three of its lists.
C4_MissingCategoricalReported ==
    (/\ Ended
     /\ train_df.loaded /\ test_df.loaded
     /\ SchemaKeys \subseteq schema.keys
     /\ (LacksCategorical(train_df) \/ LacksCategorical(test_df))) =>
        /\ artifact.returned
        /\ Contains(artifact.message, RequiredMissingPhrase)
        /\ ~ artifact.validation_status

\* the test CSV alone lacks a categorical column, has every numerical one
\* and the right count, and the artifact was returned
C4_Witness ==
    /\ artifact.returned
    /\ LacksCategorical(test_df)
    /\ ~ LacksCategorical(train_df)
    /\ NumericalPresent(test_df)
    /\ schema.numerical_columns # <<>>
    /\ SameCount(test_df)

(* ------------------------------- C5 ------------------------------------ *)
\* C5: whatever is raised inside a method leaves it as a USvisaException
\* whose cause is what was raised, and a run that raised returned no
\* artifact.
C5_OnlyUSvisaExceptionLeaves ==
    /\ \A l \in left :
          /\ l.exc # <<>>
          /\ Head(l.exc) = "USvisaException"
          /\ Tail(l.exc) = l.raised
    /\ pc \in {"raised", "init_raised"} =>
          /\ exc # <<>>
          /\ Head(exc) = "USvisaException"
          /\ ~ artifact.returned
          /\ \E l \in left : l.exc = exc
    /\ exc # <<>> => pc \in {"raised", "init_raised"}

\* a KeyError of detect_dataset_drift left the run wrapped twice
C5_Witness ==
    /\ pc = "raised"
    /\ exc = <<"USvisaException", "USvisaException", "KeyError">>
    /\ \E l \in left : l.method = "detect_dataset_drift"

(* ------------------------------- C6 ------------------------------------ *)
\* C6 as stated: every returned artifact comes with a drift report file
\* written at the configured path, which the artifact names.
C6_Original ==
    artifact.returned =>
        /\ config.drift_report_file_path \in files
        /\ artifact.drift_report_file_path = config.drift_report_file_path

\* C6 amended: every returned artifact names the configured path, and the
\* run has written the report file there exactly when validation_status is
\* true.
C6_ReportFileIffStatus ==
    artifact.returned =>
        /\ artifact.drift_report_file_path = config.drift_report_file_path
        /\ files \subseteq {artifact.drift_report_file_path}
        /\ (artifact.drift_report_file_path \in files
                <=> artifact.validation_status)

\* an artifact returned with the report file written at the path it names
C6_Witness ==
    /\ artifact.returned
    /\ artifact.validation_status
    /\ files = {artifact.drift_report_file_path}

(* ------------------------------- C7 ------------------------------------ *)
\* C7: detect_dataset_drift is called at most once, after the four column
\* checks and only when all four passed; once a check has failed it is not
\* called and no report file is written.
C7_DriftOnlyAfterPassedChecks ==
    /\ Cardinality(Positions("detect_dataset_drift")) <= 1
    /\ Cardinality(Positions("Report.run")) <= 1
    /\ \A i \in Positions("detect_dataset_drift") :
          /\ SelectSeq(SubSeq(calls, 1, i - 1), IsColumnCheck) = FourChecks
          /\ AllChecksPass
          /\ \A r \in rets : r.value
    /\ \A i \in Positions("Report.run") \cup Positions("write_yaml_file") :
          \E j \in Positions("detect_dataset_drift") : j < i
    /\ (\E r \in rets : ~ r.value) =>
          /\ Positions("detect_dataset_drift") = {}
          /\ Positions("write_yaml_file") = {}
          /\ files = {}

\* the run returned after one call of detect_dataset_drift
C7_Witness ==
    /\ pc = "returned"
    /\ Cardinality(Positions("detect_dataset_drift")) = 1
    /\ RequiredNames # {}

(* ------------------------------- C8 ------------------------------------ *)
\* C8 as stated: in detect_dataset_drift the fields are extracted before the
\* file is written, so a report lacking a field fails the method with no
\* report file written.
C8_Original ==
    /\ \A i \in Positions("write_yaml_file") :
          \E j \in Positions("extract") : j < i
    /\ DriftKeyErrorLeft => files = {}

\* C8 amended: the report is run, then written to the YAML file, and only
\* then are the fields extracted, so a report lacking a field fails the
\* method after the report file has been written.
C8_WriteBeforeExtract ==
    /\ \A i \in Positions("extract") :
          \E j \in Positions("write_yaml_file") :
              /\ j < i
              /\ \E k \in Positions("Report.run") : k < j
    /\ DriftKeyErrorLeft => files = {config.drift_report_file_path}

\* the extraction failed on a report without dataset_drift, the file being
\* written already
C8_Witness ==
    /\ DriftKeyErrorLeft
    /\ "dataset_drift" \notin json_report.fields
    /\ files # {}

(* ------------------------------- C9 ------------------------------------ *)
\* C9: the message of a returned artifact with status false is the
\* fragments of exactly the failed checks, in the order training count, test
\* count, training required, test required; all four checks were evaluated
\* and the message is not empty.
C9_MessageIsFailedFragments ==
    (artifact.returned /\ ~ artifact.validation_status) =>
        /\ artifact.message =
              FragmentIf(~ SameCount(train_df), MsgTrainCount)
                \o FragmentIf(~ SameCount(test_df), MsgTestCount)
                \o FragmentIf(~ (NumericalPresent(train_df)
                                   /\ CategoricalPresent(train_df)), MsgTrainExist)
                \o FragmentIf(~ (NumericalPresent(test_df)
                                   /\ CategoricalPresent(test_df)), MsgTestExist)
        /\ artifact.message # <<>>
        /\ SelectSeq(calls, IsColumnCheck) = FourChecks

\* the first and the last check failed, the two between them passed
C9_Witness ==
    /\ artifact.returned
    /\ artifact.message = MsgTrainCount \o MsgTestExist

(* ------------------------------- C10 ----------------------------------- *)
\* C10: the message of a returned artifact with status true is "Drift
\* detected." when the report's dataset_drift was true and "Drift not
\* detected." otherwise; it is not empty and holds no column fragment.
C10_MessageIsDriftVerdict ==
    (artifact.returned /\ artifact.validation_status) =>
        /\ artifact.message =
              (IF json_report.dataset_drift THEN MsgDrift ELSE MsgNoDrift)
        /\ artifact.message # <<>>
        /\ \A f \in ColumnFragments : ~ Contains(artifact.message, f)

\* an artifact with status true whose report found no drift
C10_Witness ==
    /\ artifact.returned
    /\ artifact.validation_status
    /\ ~ json_report.dataset_drift
    /\ artifact.message = MsgNoDrift

Next ==
    \/ Construct
    \/ Initiate
    \/ ReadTrain
    \/ ReadTest
    \/ ValidateTrainCount
    \/ ValidateTestCount
    \/ ExistTrain
    \/ ExistTest
    \/ ComputeStatus
    \/ DriftRun
    \/ DriftWrite
    \/ DriftExtract
    \/ SetDriftMessage
    \/ MakeArtifact

Spec == Init /\ [][Next]_vars
====
